---- MODULE Spec2Model ----
(***************************************************************************)
(* Go-Back-N file transfer over UDP (Portfolio2-main/application.py).      *)
(*                                                                         *)
(* Two processes, client() and server(), exchange datagrams.  A datagram   *)
(* is the byte sequence create_packet builds: a 6-byte big-endian header   *)
(* (seq, ack, flags) followed by the payload.  Each socket operation of    *)
(* the code is one step: a sendto in the fill loop, a recvfrom that        *)
(* returns a datagram, a recvfrom that times out.                          *)
(*                                                                         *)
(* The transport is modelled in three disciplines, fixed per behaviour by  *)
(* the variable net:                                                       *)
(*   "any"   a datagram once sent may be delivered at any later time, any  *)
(*           number of times, or never (loss, duplication, reordering);    *)
(*           the timer may expire at any time;                             *)
(*   "fifo"  every datagram is delivered exactly once, in order; the       *)
(*           500 ms timer outlasts a round trip, so it expires only when   *)
(*           nothing is in flight;                                         *)
(*   "lossy" datagrams are delivered in order or lost; the timer may       *)
(*           expire at any time.                                           *)
(*                                                                         *)
(* Not modelled: sent_bytes, received_bytes and the time stamps, which     *)
(* only feed the throughput report and influence no decision.              *)
(***************************************************************************)
EXTENDS Integers, Sequences, FiniteSets, TLC

VARIABLES
    net,              \* transport discipline of this behaviour
    toServer,         \* datagrams sent to the server's socket
    toClient,         \* datagrams sent to the client's socket
    cargs,            \* client command line: windowSize, testCase, file
    sargs,            \* server command line: testCase
    cpc,              \* client position
    dataArr,          \* client: chunks read from the file
    base,             \* goBackNClient
    next_seq_num,     \* goBackNClient
    unackedPackets,   \* goBackNClient: sequence of <<seq_num, packet>>
    skipped_seq_num,  \* goBackNClient
    spc,              \* server position
    expected_seq_num, \* server global
    testCase,         \* server global
    skipped_ack,      \* server global
    recv_buffer,      \* server global
    file,             \* server: bytes written to the output file
    ev                \* last step: operation, datagram received, datagrams sent

vars == <<net, toServer, toClient, cargs, sargs, cpc, dataArr, base,
          next_seq_num, unackedPackets, skipped_seq_num, spc,
          expected_seq_num, testCase, skipped_ack, recv_buffer, file, ev>>

clientVars == <<cpc, dataArr, base, next_seq_num, unackedPackets, skipped_seq_num>>
serverVars == <<spc, expected_seq_num, testCase, skipped_ack, recv_buffer, file>>
argVars    == <<net, cargs, sargs>>

(***************************************************************************)
(* Bounds                                                                  *)
(***************************************************************************)
\* payload bytes per chunk (994 in the source, scaled down)
data_size == 2
\* longest input file, in chunks, of the general specification
MaxChunks == 6
\* number of chunks of the concrete scenario (chunk indices 0..9)
ScenarioChunks == 10
\* longest input file, in chunks, of the lossy specification
LossyChunks == 2
\* longest input file, in chunks, of the specification with short datagrams
ShortChunks == 2

(***************************************************************************)
(* Program constants                                                       *)
(***************************************************************************)
header_size == 6
packet_size == data_size + header_size
rest_flag == 1
fin_flag == 2
ack_flag == 4
syn_flag == 8
\* the chunk index both test cases are wired to
skip_index == 4
\* check_windowSize
WindowSizes == {3, 5, 10}
\* args.testCase: absent, or one of check_testCase's values
None == "None"
TestCases == {None, "skip_ack", "skip_seq_num"}

(***************************************************************************)
(* Packet codec                                                            *)
(***************************************************************************)
Min(a, b) == IF a < b THEN a ELSE b

\* struct.pack('!H', n): two bytes, most significant first
PackH(n) == <<n \div 256, n % 256>>

\* struct.unpack('!H', b)
UnpackH(b) == b[1] * 256 + b[2]

create_packet(seq, ack, flags, data) ==
    PackH(seq) \o PackH(ack) \o PackH(flags) \o data

parse_header(header) ==
    [seq   |-> UnpackH(SubSeq(header, 1, 2)),
     ack   |-> UnpackH(SubSeq(header, 3, 4)),
     flags |-> UnpackH(SubSeq(header, 5, 6))]

\* Python's a & b on non-negative integers
RECURSIVE BitAnd(_, _)
BitAnd(a, b) ==
    IF a = 0 \/ b = 0 THEN 0
    ELSE (a % 2) * (b % 2) + 2 * BitAnd(a \div 2, b \div 2)

\* socket.recvfrom(bufsize): a datagram longer than bufsize is cut
recvfrom(datagram, bufsize) == SubSeq(datagram, 1, Min(bufsize, Len(datagram)))

\* received_packet[:header_size] and received_packet[header_size:]
HeaderOf(packet) == SubSeq(packet, 1, Min(header_size, Len(packet)))

\* variant: the payload slice starts one byte early
DataOfEarly(packet) == SubSeq(packet, header_size, Len(packet))

DataOf(packet) == SubSeq(packet, header_size + 1, Len(packet))

(***************************************************************************)
(* Files                                                                   *)
(***************************************************************************)
\* an input file of L bytes; every byte differs from its neighbours
FileOf(L) == [j \in 1..L |-> j % 256]

\* readDataFromFile: blocks of data_size bytes, the last one possibly shorter
RECURSIVE readDataFromFile(_)
readDataFromFile(f) ==
    IF Len(f) = 0 THEN <<>>
    ELSE <<SubSeq(f, 1, Min(data_size, Len(f)))>>
         \o readDataFromFile(SubSeq(f, data_size + 1, Len(f)))

\* the concatenation of a sequence of byte sequences
RECURSIVE Concat(_)
Concat(ss) == IF ss = <<>> THEN <<>> ELSE Head(ss) \o Concat(Tail(ss))

\* recv_buffer.sort(key=lambda x: x[0]): stable insertion by sequence number
InsertBySeq(e, s) ==
    LET k == Cardinality({i \in DOMAIN s : s[i][1] <= e[1]})
    IN  SubSeq(s, 1, k) \o <<e>> \o SubSeq(s, k + 1, Len(s))

RECURSIVE SortBySeq(_)
SortBySeq(s) ==
    IF s = <<>> THEN <<>>
    ELSE InsertBySeq(s[Len(s)], SortBySeq(SubSeq(s, 1, Len(s) - 1)))

\* restructFile: the bytes it appends to the output file
restructFile(buffer) ==
    LET sorted == SortBySeq(buffer)
    IN  Concat([i \in DOMAIN sorted |-> DataOf(sorted[i][2])])

(***************************************************************************)
(* Transport                                                               *)
(***************************************************************************)
InFlight(ch, p) == \E i \in DOMAIN ch : ch[i] = p

\* sendto of one datagram.  Outside "fifo" a copy of a datagram that is
\* still in flight adds nothing: under "any" the copy in flight can be
\* delivered again, under "lossy" the new copy is lost.
Put(ch, p) ==
    IF net = "fifo" THEN Append(ch, p)
    ELSE IF InFlight(ch, p) THEN ch ELSE Append(ch, p)

RECURSIVE PutAll(_, _)
PutAll(ch, out) ==
    IF out = <<>> THEN ch ELSE PutAll(Put(ch, Head(out)), Tail(out))

\* the positions of ch whose datagram the socket may return next
Deliverable(ch) ==
    IF net = "any" THEN DOMAIN ch
    ELSE IF ch = <<>> THEN {} ELSE {1}

\* ch after the datagram at position i was returned by recvfrom
Delivered(ch, i) ==
    IF net = "any" THEN ch
    ELSE SubSeq(ch, 1, i - 1) \o SubSeq(ch, i + 1, Len(ch))

\* the receive timer of the client may expire
TimerMayExpire ==
    net = "fifo" => (toServer = <<>> /\ toClient = <<>>)

Event(op, pkt, out) == [op |-> op, pkt |-> pkt, out |-> out]


(***************************************************************************)
(* Datagrams from outside the session.  UDP accepts a datagram from any    *)
(* sender, so the first datagram a handshake reads need not come from the  *)
(* peer.  They reach a socket only while it waits in its handshake.        *)
(***************************************************************************)
Foreign ==
    {create_packet(seq, 0, flags, data) :
        seq \in {0, 7}, flags \in {0, fin_flag, ack_flag, syn_flag, 12, 14},
        data \in {<<>>, <<9>>}}

(***************************************************************************)
(* Client                                                                  *)
(***************************************************************************)
\* variant: either flag is enough
SynOrAckSet(recv_flags) == BitAnd(recv_flags, 12) # 0

\* clientHandshake: the test on the flags of the reply
SynAckSet(recv_flags) == BitAnd(recv_flags, 12) = 12

\* client(), up to and including the SYN of clientHandshake
clientStart ==
    /\ cpc = "start"
    /\ dataArr' = readDataFromFile(cargs.file)
    /\ IF ~(Len(dataArr') > 0)
       THEN /\ cpc' = "exit"
            /\ toServer' = toServer
            /\ ev' = Event("clientStart", <<>>, <<>>)
       ELSE LET packet == create_packet(0, 0, syn_flag, <<>>)
            IN  /\ cpc' = "handshake"
                /\ toServer' = Put(toServer, packet)
                /\ ev' = Event("clientStart", <<>>, <<packet>>)
    /\ UNCHANGED <<toClient, base, next_seq_num, unackedPackets, skipped_seq_num>>
    /\ UNCHANGED <<argVars, serverVars>>

\* clientHandshake after recvfrom returned reply; a failed handshake closes
\* the socket and exits, a successful one enters goBackNClient
clientHandshakeReply(reply) ==
    LET header == recvfrom(reply, header_size)
        h == parse_header(header)
    IN  /\ cpc = "handshake"
        /\ IF SynAckSet(h.flags)
           THEN LET packet == create_packet(0, h.seq, ack_flag, <<>>)
                IN  /\ toServer' = Put(toServer, packet)
                    /\ cpc' = "gbn"
                    /\ ev' = Event("clientHandshakeReply", reply, <<packet>>)
           ELSE /\ toServer' = toServer
                /\ cpc' = "exit"
                /\ ev' = Event("clientHandshakeReply", reply, <<>>)
        /\ base' = 0
        /\ next_seq_num' = 0
        /\ unackedPackets' = <<>>
        /\ skipped_seq_num' = FALSE
        /\ UNCHANGED <<dataArr, argVars, serverVars>>

\* clientHandshake when recvfrom raises socket.timeout
clientHandshakeTimeout ==
    /\ cpc = "handshake"
    /\ TimerMayExpire
    /\ cpc' = "exit"
    /\ ev' = Event("clientHandshakeTimeout", <<>>, <<>>)
    /\ UNCHANGED <<toServer, toClient, dataArr, base, next_seq_num,
                   unackedPackets, skipped_seq_num>>
    /\ UNCHANGED <<argVars, serverVars>>

\* variant: the loop ends when every chunk has been sent once
TransferringUnsent == next_seq_num < Len(dataArr)

\* goBackNClient: the condition of the outer loop
Transferring == base < Len(dataArr) \/ unackedPackets # <<>>

\* variant: the window test is off by one
WindowOpenInclusive ==
    next_seq_num <= base + cargs.windowSize /\ next_seq_num < Len(dataArr)

\* goBackNClient: the condition of the fill loop
WindowOpen ==
    next_seq_num < base + cargs.windowSize /\ next_seq_num < Len(dataArr)

\* goBackNClient: the test that skips one transmission
SkipSeqNum ==
    next_seq_num = skip_index /\ cargs.testCase = "skip_seq_num" /\ ~skipped_seq_num

\* goBackNClient: one iteration of the fill loop
gbnFill ==
    LET data == dataArr[next_seq_num + 1]
        packet == create_packet(next_seq_num, 0, 0, data)
    IN  /\ cpc = "gbn"
        /\ Transferring
        /\ WindowOpen
        /\ unackedPackets' = Append(unackedPackets, <<next_seq_num, packet>>)
        /\ IF SkipSeqNum
           THEN /\ skipped_seq_num' = TRUE
                /\ toServer' = toServer
                /\ ev' = Event("gbnFill", <<>>, <<>>)
           ELSE /\ skipped_seq_num' = skipped_seq_num
                /\ toServer' = Put(toServer, packet)
                /\ ev' = Event("gbnFill", <<>>, <<packet>>)
        /\ next_seq_num' = next_seq_num + 1
        /\ UNCHANGED <<toClient, cpc, dataArr, base>>
        /\ UNCHANGED <<argVars, serverVars>>

\* goBackNClient blocks in recvfrom
Waiting == cpc = "gbn" /\ Transferring /\ ~WindowOpen

\* variant: the acknowledgement number is not compared with base
AckAny(h) == h.flags = ack_flag

\* variant: an acknowledgement beyond base is taken as cumulative
AckAtLeastBase(h) == h.flags = ack_flag /\ h.ack >= base

\* variant: an acknowledgement below base is taken again
AckUpToBase(h) == h.flags = ack_flag /\ h.ack <= base

\* variant: the flags of the received packet are not examined
AckNumberOnly(h) == h.ack = base

\* variant: the ACK flag is tested as a bit, not as the whole flag field
AckBitSet(h) == BitAnd(h.flags, ack_flag) = ack_flag /\ h.ack = base

\* goBackNClient: the test on a received header
AckForBase(h) == h.flags = ack_flag /\ h.ack = base

\* goBackNClient after recvfrom returned received_packet.  pop(0) on an
\* empty list raises IndexError before base is assigned, and the handler
\* then retransmits the (empty) list.
gbnAck(received_packet) ==
    LET h == parse_header(HeaderOf(recvfrom(received_packet, packet_size)))
    IN  /\ Waiting
        /\ IF AckForBase(h) /\ unackedPackets # <<>>
           THEN /\ unackedPackets' = Tail(unackedPackets)
                /\ base' = h.ack + 1
           ELSE UNCHANGED <<unackedPackets, base>>
        /\ ev' = Event("gbnAck", received_packet, <<>>)
        /\ UNCHANGED <<toServer, cpc, dataArr, next_seq_num, skipped_seq_num>>
        /\ UNCHANGED <<argVars, serverVars>>

\* variant: only the oldest unacknowledged packet is sent again
RetransmitOldest ==
    IF unackedPackets = <<>> THEN <<>> ELSE <<unackedPackets[1][2]>>

\* goBackNClient: the datagrams the except branch sends, in order
Retransmission == [i \in DOMAIN unackedPackets |-> unackedPackets[i][2]]

\* goBackNClient when recvfrom raises
gbnRetransmit ==
    /\ Waiting
    /\ TimerMayExpire
    /\ toServer' = PutAll(toServer, Retransmission)
    /\ ev' = Event("gbnRetransmit", <<>>, Retransmission)
    /\ UNCHANGED <<toClient, clientVars, argVars, serverVars>>

\* closeConnection, called when the outer loop of goBackNClient ends
closeConnection ==
    LET packet == create_packet(0, 0, fin_flag, <<>>)
    IN  /\ cpc = "gbn"
        /\ ~Transferring
        /\ toServer' = Put(toServer, packet)
        /\ cpc' = "closed"
        /\ ev' = Event("closeConnection", <<>>, <<packet>>)
        /\ UNCHANGED <<toClient, dataArr, base, next_seq_num, unackedPackets,
                       skipped_seq_num>>
        /\ UNCHANGED <<argVars, serverVars>>

(***************************************************************************)
(* Server                                                                  *)
(***************************************************************************)
\* variant: the flags must be SYN alone
SynOnly(recv_flags) == recv_flags = syn_flag

\* serverHandshake: the test on the flags of the first packet
SynSet(recv_flags) == BitAnd(recv_flags, 8) = 8

\* server() from its first recvfrom to the start of its loop
serverHandshake(first) ==
    LET header == recvfrom(first, header_size)
        h == parse_header(header)
    IN  /\ spc = "listen"
        /\ IF SynSet(h.flags)
           THEN LET packet == create_packet(0, 0, syn_flag + ack_flag, <<>>)
                IN  /\ toClient' = Put(toClient, packet)
                    /\ spc' = "loop"
                    /\ ev' = Event("serverHandshake", first, <<packet>>)
           ELSE /\ toClient' = toClient
                /\ spc' = "exit"
                /\ ev' = Event("serverHandshake", first, <<>>)
        /\ expected_seq_num' = 0
        /\ testCase' = sargs.testCase
        /\ skipped_ack' = FALSE
        /\ recv_buffer' = <<>>
        /\ file' = <<>>
        /\ UNCHANGED <<argVars, clientVars>>

\* variant: the test forgets that it fired
SkipAckAgain ==
    expected_seq_num = skip_index /\ sargs.testCase = "skip_ack"

\* gbnSwServer: the test that withholds one acknowledgement
SkipAck ==
    expected_seq_num = skip_index /\ testCase = "skip_ack" /\ ~skipped_ack

\* variant: a packet out of order is answered with an acknowledgement
discardAcking(received_packet) ==
    LET packet == create_packet(0, expected_seq_num, ack_flag, <<>>)
    IN  /\ toClient' = Put(toClient, packet)
        /\ ev' = Event("gbnSwServer", received_packet, <<packet>>)
        /\ UNCHANGED <<expected_seq_num, skipped_ack, testCase, file>>

\* variant: a packet out of order is answered with the previous
\* acknowledgement again
discardReAcking(received_packet) ==
    LET last == IF expected_seq_num > 0 THEN expected_seq_num - 1 ELSE 0
        packet == create_packet(0, last, ack_flag, <<>>)
    IN  /\ toClient' = Put(toClient, packet)
        /\ ev' = Event("gbnSwServer", received_packet, <<packet>>)
        /\ UNCHANGED <<expected_seq_num, skipped_ack, testCase, file>>

\* variant: the payload is written before the sequence number is compared
discardWriting(received_packet) ==
    /\ file' = file \o DataOf(received_packet)
    /\ ev' = Event("gbnSwServer", received_packet, <<>>)
    /\ UNCHANGED <<toClient, expected_seq_num, skipped_ack, testCase>>

\* gbnSwServer: the branch that discards a packet
discard(received_packet) ==
    /\ ev' = Event("gbnSwServer", received_packet, <<>>)
    /\ UNCHANGED <<toClient, expected_seq_num, skipped_ack, testCase, file>>

\* gbnSwServer
gbnSwServer(received_packet, recv_seq, data) ==
    IF SkipAck
    THEN /\ skipped_ack' = TRUE
         /\ testCase' = ""
         /\ ev' = Event("gbnSwServer", received_packet, <<>>)
         /\ UNCHANGED <<toClient, expected_seq_num, file>>
    ELSE IF recv_seq = expected_seq_num
    THEN LET packet == create_packet(0, expected_seq_num, ack_flag, <<>>)
         IN  /\ file' = file \o data
             /\ toClient' = Put(toClient, packet)
             /\ expected_seq_num' = expected_seq_num + 1
             /\ skipped_ack' = FALSE
             /\ ev' = Event("gbnSwServer", received_packet, <<packet>>)
             /\ UNCHANGED testCase
    ELSE discard(received_packet)

\* struct.unpack(header_format, header) raises struct.error unless the
\* buffer holds exactly the six bytes of the format
Malformed(header) == Len(header) # header_size

\* variant: every packet without payload ends the transfer
ControlSet(recv_flags) == recv_flags # 0

\* server(): the test on the flags of a packet without payload
FinSet(recv_flags) == BitAnd(recv_flags, 2) = 2

\* server(): one iteration of its loop, and what follows the loop.  The
\* exception parse_header raises on a short header is caught nowhere and
\* ends the process.
serverLoop(datagram) ==
    LET received_packet == recvfrom(datagram, packet_size)
        h == parse_header(HeaderOf(received_packet))
        data == DataOf(received_packet)
    IN  /\ spc = "loop"
        /\ IF Malformed(HeaderOf(received_packet))
           THEN /\ spc' = "crashed"
                /\ ev' = Event("serverMalformed", received_packet, <<>>)
                /\ UNCHANGED <<toClient, expected_seq_num, testCase, skipped_ack, file>>
           ELSE IF Len(received_packet) = header_size
           THEN IF FinSet(h.flags)
                THEN /\ spc' = "done"
                     /\ file' = file \o restructFile(recv_buffer)
                     /\ ev' = Event("serverFin", received_packet, <<>>)
                     /\ UNCHANGED <<toClient, expected_seq_num, testCase, skipped_ack>>
                ELSE /\ ev' = Event("serverSkip", received_packet, <<>>)
                     /\ UNCHANGED <<toClient, spc, expected_seq_num, testCase,
                                    skipped_ack, file>>
           ELSE /\ gbnSwServer(received_packet, h.seq, data)
                /\ spc' = spc
        /\ UNCHANGED <<recv_buffer, argVars, clientVars>>


(***************************************************************************)
(* Steps: a handler together with the socket operation that triggers it    *)
(***************************************************************************)
ClientStart == clientStart

ClientHandshakeRecv ==
    \E i \in Deliverable(toClient) :
        /\ clientHandshakeReply(toClient[i])
        /\ toClient' = Delivered(toClient, i)

ClientHandshakeForeign ==
    \E p \in Foreign :
        /\ clientHandshakeReply(p)
        /\ toClient' = toClient

ClientHandshakeTimeout == clientHandshakeTimeout

GbnFill == gbnFill

GbnRecv ==
    \E i \in Deliverable(toClient) :
        /\ gbnAck(toClient[i])
        /\ toClient' = Delivered(toClient, i)

GbnRetransmit == gbnRetransmit

CloseConnection == closeConnection

ServerHandshakeRecv ==
    \E i \in Deliverable(toServer) :
        /\ serverHandshake(toServer[i])
        /\ toServer' = Delivered(toServer, i)

ServerHandshakeForeign ==
    \E p \in Foreign :
        /\ serverHandshake(p)
        /\ toServer' = toServer

ServerRecv ==
    \E i \in Deliverable(toServer) :
        /\ serverLoop(toServer[i])
        /\ toServer' = Delivered(toServer, i)

\* datagrams too short to hold a header
Short == {<<>>, <<0, 0, 0>>, <<0, 4, 0, 0, 2>>}

\* a datagram too short to hold a header reaches the server's loop
ServerRecvShort ==
    \E p \in Short :
        /\ serverLoop(p)
        /\ toServer' = toServer

\* the transport loses a datagram
Remove(ch, i) == SubSeq(ch, 1, i - 1) \o SubSeq(ch, i + 1, Len(ch))

LoseToServer ==
    \E i \in DOMAIN toServer :
        /\ toServer' = Remove(toServer, i)
        /\ ev' = Event("lose", toServer[i], <<>>)
        /\ UNCHANGED <<toClient, argVars, clientVars, serverVars>>

LoseToClient ==
    \E i \in DOMAIN toClient :
        /\ toClient' = Remove(toClient, i)
        /\ ev' = Event("lose", toClient[i], <<>>)
        /\ UNCHANGED <<toServer, argVars, clientVars, serverVars>>

(***************************************************************************)
(* Specifications                                                          *)
(***************************************************************************)
\* the input files of at most n chunks, the empty file included
Files(n) == {FileOf(L) : L \in 0..(n * data_size)}

\* both processes started; nothing sent yet
Started(discipline, windows, clientCases, serverCases, files) ==
    /\ net = discipline
    /\ toServer = <<>>
    /\ toClient = <<>>
    /\ cargs \in [windowSize : windows, testCase : clientCases, file : files]
    /\ sargs \in [testCase : serverCases]
    /\ cpc = "start"
    /\ dataArr = <<>>
    /\ base = 0
    /\ next_seq_num = 0
    /\ unackedPackets = <<>>
    /\ skipped_seq_num = FALSE
    /\ spc = "listen"
    /\ expected_seq_num = 0
    /\ testCase = sargs.testCase
    /\ skipped_ack = FALSE
    /\ recv_buffer = <<>>
    /\ file = <<>>
    /\ ev = Event("start", <<>>, <<>>)

\* any transport behaviour, any command line
Init == Started("any", WindowSizes, TestCases, TestCases, Files(MaxChunks))

Next ==
    \/ ClientStart
    \/ ClientHandshakeRecv
    \/ ClientHandshakeForeign
    \/ ClientHandshakeTimeout
    \/ GbnFill
    \/ GbnRecv
    \/ GbnRetransmit
    \/ CloseConnection
    \/ ServerHandshakeRecv
    \/ ServerHandshakeForeign
    \/ ServerRecv

Spec == Init /\ [][Next]_vars


\* any transport behaviour, and short datagrams reaching the server
InitShort == Started("any", {3}, {None}, {None}, Files(ShortChunks))

NextShort == Next \/ ServerRecvShort

SpecShort == InitShort /\ [][NextShort]_vars

\* a loss-free, in-order transport; any command line
InitFifo == Started("fifo", WindowSizes, TestCases, TestCases, Files(ScenarioChunks))

ClientStepFifo ==
    \/ ClientStart
    \/ ClientHandshakeRecv
    \/ GbnFill
    \/ GbnRecv
    \/ GbnRetransmit
    \/ CloseConnection

ServerStep ==
    \/ ServerHandshakeRecv
    \/ ServerRecv

NextFifo == ClientStepFifo \/ ServerStep

\* each process keeps running
SpecFifo ==
    /\ InitFifo
    /\ [][NextFifo]_vars
    /\ WF_vars(ClientStepFifo)
    /\ WF_vars(ServerStep)

\* a transport that loses datagrams; no test case
InitLossy == Started("lossy", {3}, {None}, {None}, Files(LossyChunks))

NextLossy ==
    \/ ClientStart
    \/ ClientHandshakeRecv
    \/ ClientHandshakeTimeout
    \/ GbnFill
    \/ GbnRecv
    \/ GbnRetransmit
    \/ CloseConnection
    \/ ServerHandshakeRecv
    \/ ServerRecv
    \/ LoseToServer
    \/ LoseToClient

\* every datagram a lossy session can put on the wire
LossyDatagrams ==
    {create_packet(0, 0, flags, <<>>) : flags \in {syn_flag, 12, ack_flag, fin_flag}}
    \cup {create_packet(0, n, ack_flag, <<>>) : n \in 0..(LossyChunks - 1)}
    \cup UNION {{create_packet(n - 1, 0, 0, readDataFromFile(f)[n]) :
                    n \in 1..Len(readDataFromFile(f))} : f \in Files(LossyChunks)}

\* the server's socket returns datagram p
ServerGets(p) ==
    \E i \in Deliverable(toServer) :
        /\ toServer[i] = p
        /\ serverHandshake(p) \/ serverLoop(p)
        /\ toServer' = Delivered(toServer, i)

\* the client's socket returns datagram p
ClientGets(p) ==
    \E i \in Deliverable(toClient) :
        /\ toClient[i] = p
        /\ clientHandshakeReply(p) \/ gbnAck(p)
        /\ toClient' = Delivered(toClient, i)

\* each process keeps running, and a datagram that is sent again and again
\* is delivered
SpecLossy ==
    /\ InitLossy
    /\ [][NextLossy]_vars
    /\ WF_vars(ClientStart)
    /\ WF_vars(ClientHandshakeTimeout)
    /\ WF_vars(GbnFill)
    /\ WF_vars(GbnRetransmit)
    /\ WF_vars(CloseConnection)
    /\ \A p \in LossyDatagrams : SF_vars(ServerGets(p)) /\ SF_vars(ClientGets(p))


(***************************************************************************)
(* Properties                                                              *)
(***************************************************************************)
\* header fields read straight off the bytes of a datagram
SeqOf(p) == p[1] * 256 + p[2]
AckOf(p) == p[3] * 256 + p[4]
FlagsOf(p) == p[5] * 256 + p[6]
PayloadOf(p) == [j \in 1..(Len(p) - 6) |-> p[j + 6]]
HasBit(flags, bit) == (flags \div bit) % 2 = 1

ClientOps == {"clientStart", "clientHandshakeReply", "clientHandshakeTimeout",
              "gbnFill", "gbnAck", "gbnRetransmit", "closeConnection"}
ServerOps == {"serverHandshake", "gbnSwServer", "serverFin", "serverSkip",
              "serverMalformed"}

\* neither test case takes effect
NoFaultInjection ==
    cargs.testCase # "skip_seq_num" /\ sargs.testCase # "skip_ack"

\* the number of chunks of the input
totalChunks == Len(readDataFromFile(cargs.file))

ReliableDelivery ==
    (cpc = "gbn")
       ~> (base = totalChunks /\ unackedPackets = <<>> /\ file = cargs.file)

\* C3: once the sender has sent its FIN, the receiver eventually leaves its
\* loop and closes, also when datagrams may be lost.
SessionClose == (cpc = "closed") ~> (spc = "done")

\* C4: the unacknowledged packets never outnumber the window size.
WindowBound == Len(unackedPackets) <= cargs.windowSize

\* C4 witness: the window is full while chunks remain to be sent
WindowFull ==
    /\ cpc = "gbn"
    /\ cargs.windowSize = 5
    /\ Len(unackedPackets) = cargs.windowSize
    /\ next_seq_num < Len(dataArr)

\* C5: a data packet whose sequence number is not the expected one makes
\* the receiver write nothing, send nothing, keep expected_seq_num and stay
\* in its loop.
DiscardSafety ==
    [][(ev'.op = "gbnSwServer" /\ SeqOf(ev'.pkt) # expected_seq_num)
          => /\ file' = file
             /\ ev'.out = <<>>
             /\ toClient' = toClient
             /\ expected_seq_num' = expected_seq_num
             /\ recv_buffer' = recv_buffer
             /\ spc' = "loop"]_vars

\* C5 witness: the receiver has just handled a packet ahead of the expected one
Discarded ==
    /\ ev.op = "gbnSwServer"
    /\ SeqOf(ev.pkt) > expected_seq_num
    /\ spc = "loop"

\* the packet goBackNClient built for chunk index n
BuiltPacket(n) == <<0, n, 0, 0, 0, 0>> \o dataArr[n + 1]

\* C6: a retransmission sends the stored packets base..next_seq_num-1,
\* oldest first, each as it was first built, and changes neither base nor
\* next_seq_num nor unackedPackets.
RetransmissionFidelity ==
    [][ev'.op = "gbnRetransmit"
          => /\ ev'.out = [i \in 1..Len(unackedPackets) |-> unackedPackets[i][2]]
             /\ ev'.out = [i \in 1..(next_seq_num - base) |-> BuiltPacket(base + i - 1)]
             /\ base' = base
             /\ next_seq_num' = next_seq_num
             /\ unackedPackets' = unackedPackets]_vars

\* C6 witness: a retransmission of several packets, the first of which is
\* not chunk 0
Retransmitted ==
    /\ ev.op = "gbnRetransmit"
    /\ Len(ev.out) >= 2
    /\ base >= 1

\* a datagram with a payload
HasPayload(p) == Len(p) > 6

\* C7: the client sends one SYN, at its start; a timeout or a reply without
\* SYN+ACK ends the client, which then sends nothing; a reply with SYN and
\* ACK makes it send one ACK carrying the reply's sequence number and enter
\* the data phase; no data packet is sent before that.
ClientHandshakeOnce ==
    [][/\ (ev'.op \in ClientOps /\ \E i \in DOMAIN ev'.out : FlagsOf(ev'.out[i]) = 8)
            => (cpc = "start" /\ Len(ev'.out) = 1)
       /\ cpc # "start" => cpc' # "start"
       /\ ev'.op = "clientHandshakeTimeout"
            => (cpc = "handshake" /\ cpc' = "exit" /\ ev'.out = <<>>)
       /\ ev'.op = "clientHandshakeReply"
            => /\ cpc = "handshake"
               /\ IF HasBit(FlagsOf(ev'.pkt), 8) /\ HasBit(FlagsOf(ev'.pkt), 4)
                  THEN /\ ev'.out = <<<<0, 0, ev'.pkt[1], ev'.pkt[2], 0, 4>>>>
                       /\ cpc' = "gbn"
                  ELSE /\ ev'.out = <<>>
                       /\ cpc' = "exit"
       /\ cpc = "exit" => (cpc' = "exit" /\ ev'.op \notin ClientOps)
       /\ cpc' \in {"start", "handshake", "exit"}
            => \A i \in DOMAIN toServer' : ~HasPayload(toServer'[i])]_vars

\* C7 witness: a reply without SYN+ACK has ended the client
HandshakeRefused ==
    /\ ev.op = "clientHandshakeReply"
    /\ cpc = "exit"
    /\ ~(HasBit(FlagsOf(ev.pkt), 8) /\ HasBit(FlagsOf(ev.pkt), 4))
    /\ \E i \in DOMAIN toServer : FlagsOf(toServer[i]) = 8

\* C8: the server decides on its first packet: with SYN among its flags it
\* sends one SYN+ACK (flags 12, no payload) and enters its loop with
\* expected_seq_num 0; otherwise it sends nothing, ends, and writes nothing.
ServerHandshakeFirst ==
    [][/\ ev'.op = "serverHandshake"
            => /\ spc = "listen"
               /\ IF HasBit(FlagsOf(ev'.pkt), 8)
                  THEN /\ ev'.out = <<<<0, 0, 0, 0, 0, 12>>>>
                       /\ spc' = "loop"
                       /\ expected_seq_num' = 0
                  ELSE /\ ev'.out = <<>>
                       /\ spc' = "exit"
       /\ spc # "listen" => (spc' # "listen" /\ ev'.op # "serverHandshake")
       /\ (ev'.op \in ServerOps /\ \E i \in DOMAIN ev'.out : FlagsOf(ev'.out[i]) = 12)
            => ev'.op = "serverHandshake"
       /\ spc = "exit"
            => /\ spc' = "exit"
               /\ ev'.op \notin ServerOps
               /\ toClient' = toClient
               /\ file' = <<>>]_vars

\* C8 witness: a first packet without SYN has ended the server
ServerRefused ==
    /\ ev.op = "serverHandshake"
    /\ spc = "exit"
    /\ ~HasBit(FlagsOf(ev.pkt), 8)

\* the concrete scenario: window 3, chunks 0..9, one ACK of chunk 4 withheld
Scenario ==
    /\ cargs.windowSize = 3
    /\ totalChunks = ScenarioChunks
    /\ sargs.testCase = "skip_ack"
    /\ cargs.testCase # "skip_seq_num"

\* C9: in the concrete scenario on a loss-free transport the transfer
\* completes: base reaches the number of chunks and the output file equals
\* the input.
ScenarioCompletes ==
    (Scenario /\ cpc = "start")
       ~> (base = ScenarioChunks /\ cpc = "closed" /\ spc = "done"
           /\ file = cargs.file)

\* C9 witness: the scenario has completed after the injection fired
ScenarioDone ==
    /\ Scenario
    /\ testCase = ""
    /\ base = ScenarioChunks
    /\ spc = "done"
    /\ file = cargs.file

\* C10: when the injection fires on chunk 4 the receiver writes the payload
\* and advances expected_seq_num from 4 to 5, and only sends no ACK.
SkipAckOnlyWithholds ==
    [][(skipped_ack' /\ ~skipped_ack /\ SeqOf(ev'.pkt) = skip_index)
          => /\ file' = file \o PayloadOf(ev'.pkt)
             /\ expected_seq_num = skip_index
             /\ expected_seq_num' = skip_index + 1
             /\ ev'.out = <<>>]_vars


\* C11: the sender's FIN goes out only when every chunk is acknowledged
\* (base equals the number of chunks, nothing unacknowledged), in a step
\* that sends nothing else and closes the client; a closed client takes no
\* further step, so the FIN is sent once and is the last datagram.
FinLast ==
    [][/\ (ev'.op \in ClientOps /\ \E i \in DOMAIN ev'.out : FlagsOf(ev'.out[i]) = 2)
            => /\ cpc = "gbn"
               /\ base = totalChunks
               /\ unackedPackets = <<>>
               /\ ev'.out = <<<<0, 0, 0, 0, 0, 2>>>>
               /\ cpc' = "closed"
       /\ cpc = "closed" => (cpc' = "closed" /\ ev'.op \notin ClientOps)]_vars

\* C11 witness: the FIN has just been sent after several chunks
FinSent ==
    /\ ev.op = "closeConnection"
    /\ cpc = "closed"
    /\ base >= 3

\* C12: a datagram shorter than a header that reaches the server's loop is
\* discarded: expected_seq_num and the output stay, nothing is sent, and
\* the server keeps receiving.
ShortHeaderDiscarded ==
    [][(ev'.op \in ServerOps /\ spc = "loop" /\ Len(ev'.pkt) < 6)
          => /\ spc' = "loop"
             /\ expected_seq_num' = expected_seq_num
             /\ file' = file
             /\ ev'.out = <<>>]_vars

\* C13: base <= next_seq_num <= base + window, and unackedPackets holds
\* exactly next_seq_num - base entries, also with skip_seq_num.
SenderWindow ==
    /\ base <= next_seq_num
    /\ next_seq_num <= base + cargs.windowSize
    /\ Len(unackedPackets) = next_seq_num - base

\* C13 witness: the window is full after a sequence number was skipped
SkippedWindowFull ==
    /\ cargs.testCase = "skip_seq_num"
    /\ skipped_seq_num
    /\ base >= 1
    /\ next_seq_num = base + cargs.windowSize

\* C14: a received packet changes the sender only when its flags are ACK
\* alone and its acknowledgement number is base: the oldest entry, whose
\* sequence number is base, is removed and base grows by one.  Any other
\* packet leaves base and unackedPackets as they are.  Neither case
\* changes next_seq_num or sends anything.
StrictAck ==
    [][ev'.op = "gbnAck"
          => /\ IF FlagsOf(ev'.pkt) = 4 /\ AckOf(ev'.pkt) = base
                THEN /\ unackedPackets # <<>>
                     /\ unackedPackets[1][1] = base
                     /\ unackedPackets' = Tail(unackedPackets)
                     /\ base' = base + 1
                ELSE /\ unackedPackets' = unackedPackets
                     /\ base' = base
             /\ next_seq_num' = next_seq_num
             /\ ev'.out = <<>>
             /\ toServer' = toServer]_vars

\* C14 witness: an acknowledgement beyond base has just been ignored
HigherAckIgnored ==
    /\ ev.op = "gbnAck"
    /\ FlagsOf(ev.pkt) = 4
    /\ AckOf(ev.pkt) > base
    /\ base >= 1

\* C15: base and next_seq_num never decrease; expected_seq_num stays or
\* grows by one.
Monotone ==
    [][/\ base' >= base
       /\ next_seq_num' >= next_seq_num
       /\ expected_seq_num' \in {expected_seq_num, expected_seq_num + 1}]_vars

\* C15 witness: all three counters have advanced
Advanced ==
    /\ base >= 2
    /\ next_seq_num > base
    /\ expected_seq_num > base


\* C16: the receiver sends a datagram in its loop only when it accepts the
\* packet with the expected sequence number; that datagram is the ACK with
\* seq 0, ack the accepted number and flags ACK, and it was never sent
\* before in the session.
OneAckPerAccept ==
    [][(ev'.op \in {"gbnSwServer", "serverFin", "serverSkip"} /\ ev'.out # <<>>)
          => /\ SeqOf(ev'.pkt) = expected_seq_num
             /\ ev'.out = <<<<0, 0, expected_seq_num \div 256,
                              expected_seq_num % 256, 0, 4>>>>
             /\ expected_seq_num' = expected_seq_num + 1
             /\ file' = file \o PayloadOf(ev'.pkt)
             /\ \A i \in DOMAIN toClient : toClient[i] # ev'.out[1]]_vars

\* C16 witness: a copy of an accepted packet was handled without an answer
\* after several acknowledgements
CopyUnanswered ==
    /\ ev.op = "gbnSwServer"
    /\ ev.out = <<>>
    /\ SeqOf(ev.pkt) < expected_seq_num
    /\ \E i \in DOMAIN toClient : toClient[i] = <<0, 0, 0, 1, 0, 4>>

\* C17: a packet without payload and without FIN that reaches the server's
\* loop changes neither expected_seq_num nor the output, is not answered
\* and leaves the server in its loop; the loop ends only on a packet
\* without payload that carries FIN.
RemnantSkipped ==
    [][/\ (ev'.op \in ServerOps /\ spc = "loop" /\ Len(ev'.pkt) = 6
              /\ ~HasBit(FlagsOf(ev'.pkt), 2))
            => /\ spc' = "loop"
               /\ expected_seq_num' = expected_seq_num
               /\ file' = file
               /\ toClient' = toClient
               /\ ev'.out = <<>>
       /\ (spc = "loop" /\ spc' # "loop")
            => /\ spc' = "done"
               /\ Len(ev'.pkt) = 6
               /\ HasBit(FlagsOf(ev'.pkt), 2)]_vars

\* C17 witness: a SYN copy was skipped after data had been accepted
SynSkipped ==
    /\ ev.op = "serverSkip"
    /\ FlagsOf(ev.pkt) = 8
    /\ expected_seq_num >= 1
    /\ spc = "loop"

\* C18: the injection fires at most once in a session, and the packet it
\* fires on carries the expected sequence number, 4.
SkipAckOnAcceptable ==
    [][/\ (skipped_ack' /\ ~skipped_ack)
            => /\ testCase = "skip_ack"
               /\ expected_seq_num = skip_index
               /\ SeqOf(ev'.pkt) = expected_seq_num
       /\ testCase # "skip_ack" => testCase' # "skip_ack"]_vars

\* the chunks of the input file
inputChunks == readDataFromFile(cargs.file)

\* C19: the bytes written are chunks 0..expected_seq_num-1 of the input,
\* in order, each once.
InOrderPrefix ==
    /\ expected_seq_num <= totalChunks
    /\ file = Concat(SubSeq(inputChunks, 1, expected_seq_num))

\* C19 witness: a proper prefix was written while packets were discarded
\* and the injection had fired
PrefixWritten ==
    /\ sargs.testCase = "skip_ack"
    /\ testCase = ""
    /\ ev.op = "gbnSwServer"
    /\ ev.out = <<>>
    /\ expected_seq_num = 5
    /\ totalChunks = 6

\* C20: when the receiver has left its loop on the FIN, expected_seq_num
\* equals the number of chunks and the output equals the input.
CompleteAtFin ==
    spc = "done" => (expected_seq_num = totalChunks /\ file = cargs.file)

\* C20 witness: the receiver finished a transfer whose last chunk is short
FinishedWhole ==
    /\ spc = "done"
    /\ ev.op = "serverFin"
    /\ Len(cargs.file) = 5
    /\ file = cargs.file


\* C21: the sender's base never exceeds the receiver's expected_seq_num:
\* every chunk the sender counts as acknowledged was accepted and written.
AckedImpliesAccepted ==
    /\ base <= expected_seq_num
    /\ Len(file) >= Len(Concat(SubSeq(inputChunks, 1, base)))

\* C21 witness: the sender has just caught up with the receiver after
\* several acknowledgements
CaughtUp ==
    /\ ev.op = "gbnAck"
    /\ base >= 3
    /\ base = expected_seq_num

====
